---- MODULE Spec2Model ----
(***************************************************************************)
(* VITravels: the ride inventory and booking handlers of the Express       *)
(* server (routes) over the in-memory store (MemStorage).                  *)
(*                                                                         *)
(* A request handler is an async function: it runs without interruption    *)
(* from one `await` to the next, and other handlers may run at each await. *)
(* Every MemStorage method has no await of its own, so its body runs at    *)
(* the moment it is called.  One action of the model is therefore one      *)
(* stretch of a handler between two awaits, the store call that ends the   *)
(* stretch included.                                                       *)
(***************************************************************************)
EXTENDS Integers, FiniteSets, Sequences, TLC

\* ---- bounds of the model ------------------------------------------------
MaxReq == 2          \* request handlers that can be in flight together
MaxRides == 1        \* rides ever created
MaxBookings == 2     \* bookings ever created
MaxSeats == 2        \* largest seat count in a request body
MaxPrice == 1        \* largest pricePerHead in a request body

Slots == 1..MaxReq
Users == {"u1", "u2", "u3"}
\* the users who publish rides (users are interchangeable)
Creators == {"u1"}
RideStatuses == {"OPEN", "FULL", "CANCELLED"}

\* ---- values -------------------------------------------------------------
\* JavaScript's undefined: what Map.get returns for a missing key
Undefined == [undefined |-> TRUE]

\* a response that has not been sent yet
NoRes == [status |-> 0, error |-> ""]

Ok(code) == [status |-> code, error |-> ""]

Err(code, msg) == [status |-> code, error |-> msg]

\* a handler slot with no request in it
Idle ==
  [op |-> "none", pc |-> "idle", sessionId |-> 0, userId |-> "", body |-> Undefined,
   ride |-> Undefined, booking |-> Undefined, user |-> Undefined, res |-> NoRes]

\* ---- Map<string, T> -----------------------------------------------------
EmptyMap == [k \in {} |-> Undefined]

MapGet(m, id) == IF id \in DOMAIN m THEN m[id] ELSE Undefined

MapSet(m, id, v) == [k \in DOMAIN m \cup {id} |-> IF k = id THEN v ELSE m[k]]

MapDelete(m, id) == [k \in DOMAIN m \ {id} |-> m[k]]

\* object spread { ...a, ...b }
Spread(a, b) == [f \in DOMAIN a \cup DOMAIN b |-> IF f \in DOMAIN b THEN b[f] ELSE a[f]]

\* ---- request bodies -----------------------------------------------------
\* POST /api/rides: the fields of insertRideSchema that the handlers read
RideInputs == [availableSeats : 0..MaxSeats, pricePerHead : 0..MaxPrice]

\* the same with a negative price among the bodies
SignedRideInputs == [availableSeats : 0..MaxSeats, pricePerHead : (-1)..MaxPrice]

\* the same with one price, for the specifications about seats
SeatRideInputs == [availableSeats : 0..MaxSeats, pricePerHead : {MaxPrice}]

\* a schema that checks the seat count alone
ValidRideInput_SeatsOnly(b) == b.availableSeats >= 1

\* insertRideSchema.parse succeeds
ValidRideInput(b) == b.availableSeats >= 1 /\ b.pricePerHead >= 0

\* POST /api/bookings
BookingInputs == [rideId : 1..MaxRides, seatsBooked : 0..MaxSeats]

\* insertBookingSchema.parse succeeds
ValidBookingInput(b) == b.seatsBooked >= 1

\* PATCH /api/rides/:id passes req.body to the store unvalidated: a
\* Partial<Ride>.  The edit dialog sends availableSeats (any integer >= 0),
\* pricePerHead and status together.
PatchSeats == 0..(MaxSeats + 1)

\* patches of the seat count and the status
SeatPatches ==
  [availableSeats : PatchSeats] \cup [status : RideStatuses]
    \cup [availableSeats : PatchSeats, status : RideStatuses]

\* patches of the price alone
PricePatches == [pricePerHead : 0..MaxPrice]

\* patches of the fields the edit dialog does not send
FieldPatches ==
  [totalSeats : 1..MaxSeats] \cup [creatorId : Users] \cup [id : {MaxRides + 1}]

Patches == SeatPatches \cup [pricePerHead : 0..MaxPrice] \cup [totalSeats : 1..MaxSeats]

\* ---- MemStorage ---------------------------------------------------------
VARIABLES
  rides,          \* MemStorage.rides: id -> Ride
  bookings,       \* MemStorage.bookings: id -> Booking
  nextRideId,     \* randomUUID() for rides: ids are never reused
  nextBookingId,  \* randomUUID() for bookings
  reqs,           \* the request handlers: slot -> its request and locals
  manualStatus,   \* history: ride id -> the status its creator's last edit
                  \* carried ("" when that edit carried none, or no edit yet)
  users,          \* MemStorage.users: id -> User
  sessions,       \* the session store of the routes: session id -> user id
  nextSessionId   \* randomUUID() for sessions: ids are never reused

\* what the login and logout handlers write
auth == <<users, sessions, nextSessionId>>

vars == <<rides, bookings, nextRideId, nextBookingId, reqs, manualStatus,
          users, sessions, nextSessionId>>

getRide(id) == MapGet(rides, id)

getBooking(id) == MapGet(bookings, id)

\* the Ride object createRide builds
createRide(insertRide, creatorId, id) ==
  [id |-> id, creatorId |-> creatorId,
   availableSeats |-> insertRide.availableSeats,
   totalSeats |-> insertRide.availableSeats,
   pricePerHead |-> insertRide.pricePerHead,
   status |-> "OPEN"]

\* a derivation that reopens any ride that has seats again
StatusAfter_Reopen(ride, updatedRide, updates, autoUpdateStatus) ==
  IF autoUpdateStatus /\ "availableSeats" \in DOMAIN updates
  THEN IF updatedRide.availableSeats <= 0 THEN "FULL" ELSE "OPEN"
  ELSE updatedRide.status

\* a derivation that closes the ride only below zero seats
StatusAfter_Strict(ride, updatedRide, updates, autoUpdateStatus) ==
  IF autoUpdateStatus /\ "availableSeats" \in DOMAIN updates
  THEN IF updatedRide.availableSeats < 0 THEN "FULL"
       ELSE IF ride.status = "FULL" /\ updatedRide.availableSeats > 0 THEN "OPEN"
       ELSE updatedRide.status
  ELSE updatedRide.status

\* a derivation that never reopens a ride
StatusAfter_NoReopen(ride, updatedRide, updates, autoUpdateStatus) ==
  IF autoUpdateStatus /\ "availableSeats" \in DOMAIN updates
  THEN IF updatedRide.availableSeats <= 0 THEN "FULL" ELSE updatedRide.status
  ELSE updatedRide.status

\* a derivation that does not look at autoUpdateStatus
StatusAfter_IgnoreFlag(ride, updatedRide, updates, autoUpdateStatus) ==
  IF "availableSeats" \in DOMAIN updates
  THEN IF updatedRide.availableSeats <= 0 THEN "FULL"
       ELSE IF ride.status = "FULL" /\ updatedRide.availableSeats > 0 THEN "OPEN"
       ELSE updatedRide.status
  ELSE updatedRide.status

\* the status updateRide stores: derived only when seats are in the patch
\* and autoUpdateStatus is true
StatusAfter(ride, updatedRide, updates, autoUpdateStatus) ==
  IF autoUpdateStatus /\ "availableSeats" \in DOMAIN updates
  THEN IF updatedRide.availableSeats <= 0 THEN "FULL"
       ELSE IF ride.status = "FULL" /\ updatedRide.availableSeats > 0 THEN "OPEN"
       ELSE updatedRide.status
  ELSE updatedRide.status

\* updateRide that stores the patch under the id when the ride is missing
updateRide_Upsert(id, updates, autoUpdateStatus) ==
  LET ride == IF id \in DOMAIN rides THEN rides[id]
              ELSE createRide([availableSeats |-> 0, pricePerHead |-> 0], "", id)
      updatedRide == Spread(ride, updates) IN
  MapSet(rides, id,
         [updatedRide EXCEPT
            !.status = StatusAfter(ride, updatedRide, updates, autoUpdateStatus)])

\* updateRide that merges the patch onto the ride as it was created: every
\* seat free and the status OPEN
updateRide_Reset(id, updates, autoUpdateStatus) ==
  LET ride == MapGet(rides, id) IN
  IF ride = Undefined THEN rides
  ELSE LET fresh == [ride EXCEPT !.availableSeats = ride.totalSeats, !.status = "OPEN"]
           updatedRide == Spread(fresh, updates) IN
       MapSet(rides, id,
              [updatedRide EXCEPT
                 !.status = StatusAfter(fresh, updatedRide, updates, autoUpdateStatus)])

\* MemStorage.updateRide: the rides map after the call
updateRide(id, updates, autoUpdateStatus) ==
  LET ride == MapGet(rides, id) IN
  IF ride = Undefined THEN rides
  ELSE LET updatedRide == Spread(ride, updates) IN
       MapSet(rides, id,
              [updatedRide EXCEPT
                 !.status = StatusAfter(ride, updatedRide, updates, autoUpdateStatus)])

\* deleteRide that misses the key
deleteRide_Noop(id) == rides

\* MemStorage.deleteRide: the rides map after the call
deleteRide(id) == MapDelete(rides, id)

\* the Booking object createBooking builds; bookedAt is the clock reading, which
\* orders the bookings as their creation does
createBooking(insertBooking, userId, pricePerHead, id) ==
  [id |-> id, rideId |-> insertBooking.rideId, userId |-> userId,
   seatsBooked |-> insertBooking.seatsBooked, status |-> "BOOKED",
   totalPrice |-> insertBooking.seatsBooked * pricePerHead,
   bookedAt |-> id]

\* cancelBooking that also zeroes the price of the cancelled booking
cancelBooking_Refund(id) ==
  LET booking == MapGet(bookings, id) IN
  IF booking = Undefined THEN bookings
  ELSE MapSet(bookings, id, [booking EXCEPT !.status = "CANCELLED", !.totalPrice = 0])

\* cancelBooking as a toggle of the status
cancelBooking_Toggle(id) ==
  LET booking == MapGet(bookings, id) IN
  IF booking = Undefined THEN bookings
  ELSE MapSet(bookings, id,
              [booking EXCEPT
                 !.status = IF booking.status = "BOOKED" THEN "CANCELLED" ELSE "BOOKED"])

\* new Date() at a cancellation: a clock reading, kept as its rank among the
\* readings stamped on this booking (a later call reads a later time)
Now(booking) ==
  IF "cancelledAt" \in DOMAIN booking THEN booking.cancelledAt + 1 ELSE 1

\* cancelBooking that needs the ride of the booking to be stored
cancelBooking_IfRide(id) ==
  LET booking == MapGet(bookings, id) IN
  IF booking = Undefined \/ booking.rideId \notin DOMAIN rides THEN bookings
  ELSE MapSet(bookings, id, Spread(booking, [status |-> "CANCELLED", cancelledAt |-> Now(booking)]))

\* cancelBooking that cancels every booking of the same user
cancelBooking_AllOfUser(id) ==
  LET booking == MapGet(bookings, id) IN
  IF booking = Undefined THEN bookings
  ELSE [b \in DOMAIN bookings |->
          IF bookings[b].userId = booking.userId
          THEN Spread(bookings[b], [status |-> "CANCELLED", cancelledAt |-> Now(bookings[b])])
          ELSE bookings[b]]

\* MemStorage.cancelBooking: the bookings map after the call; cancelledAt is
\* the clock reading at the call, whatever the booking held
cancelBooking(id) ==
  LET booking == MapGet(bookings, id) IN
  IF booking = Undefined THEN bookings
  ELSE MapSet(bookings, id, Spread(booking, [status |-> "CANCELLED", cancelledAt |-> Now(booking)]))

\* ---- users and sessions ---------------------------------------------------
MaxUsers == 3        \* users ever created
MaxSessions == 3     \* sessions ever created

\* the ids randomUUID() gives to users, in the order of creation
UserIds == <<"u1", "u2", "u3", "u4", "u5">>

\* JavaScript's null: what getCurrentUser answers without a session
Null == "null"

\* a request without the x-session-id header
NoSession == 0

\* a session id the server never issued
Forged == -1

\* the session ids a client can present: none, a made-up one, or any id a
\* login has answered so far
Presented == {NoSession, Forged} \cup 1..(nextSessionId - 1)

\* getCurrentUser that takes a request without a live session for the first user
getCurrentUser_Guest(sessionId) ==
  IF sessionId \in DOMAIN sessions THEN sessions[sessionId] ELSE UserIds[1]

\* getCurrentUser: the user id of the session the request names
getCurrentUser(sessionId) ==
  IF sessionId = NoSession THEN Null
  ELSE IF sessionId \in DOMAIN sessions THEN sessions[sessionId] ELSE Null

\* the endpoints behind requireAuth that write to the store
GatedOps == {"CreateRide", "UpdateRide", "DeleteRide", "CreateBooking", "CancelBooking"}

\* addresses and names as the characters typed
LoginEmails == {<<>>, <<"a">>, <<"a", "@", "v">>, <<"b", "@", "v">>}

LoginNames == {<<>>, <<"n">>, <<"n", "n">>}

\* z.string().email() on the addresses above: a local part, an @, a domain
IsEmail(email) ==
  \E i \in 2..(Len(email) - 1) :
    /\ email[i] = "@"
    /\ \A j \in 1..Len(email) : j # i => email[j] # "@"

\* insertUserSchema.parse succeeds
ValidUserInput(b) == Len(b.name) >= 2 /\ IsEmail(b.email)

\* MemStorage.getUserByEmail: the first user, in insertion order, with the email
getUserByEmail(email) ==
  LET found == {id \in DOMAIN users : users[id].email = email} IN
  IF found = {} THEN Undefined
  ELSE users[CHOOSE id \in found :
               \A other \in found : users[id].createdAt <= users[other].createdAt]

\* the User object createUser builds; createdAt is the rank of the clock reading
createUser(insertUser, id, now) ==
  [id |-> id, name |-> insertUser.name, email |-> insertUser.email, createdAt |-> now]

\* the place of a user id in the order of creation
UserIndex(id) == CHOOSE n \in 1..Len(UserIds) : UserIds[n] = id

\* the id and the clock reading of the next createUser call
NextUser == Cardinality(DOMAIN users) + 1

\* the users u1, u2 and u3 have signed in, each with an address of its own,
\* and hold one session each
SignedIn ==
  /\ users = [id \in Users |->
                createUser([name |-> <<"n", "n">>, email |-> <<id, "@", "v">>],
                           id, UserIndex(id))]
  /\ sessions = [s \in 1..Cardinality(Users) |-> UserIds[s]]
  /\ nextSessionId = Cardinality(Users) + 1

\* ---- the state when the first ride request arrives ------------------------
Init ==
  /\ rides = EmptyMap
  /\ bookings = EmptyMap
  /\ nextRideId = 1
  /\ nextBookingId = 1
  /\ reqs = [p \in Slots |-> Idle]
  /\ manualStatus = [id \in 1..MaxRides |-> ""]
  /\ SignedIn

\* the handler in slot p moves on with new locals
Step(p, r) == reqs' = [reqs EXCEPT ![p] = r]

Finish(p, res) == Step(p, [reqs[p] EXCEPT !.pc = "done", !.res = res])

\* ---- POST /api/rides -----------------------------------------------------
\* validation and storage.createRide run in one stretch
CreateRide(p, inputs) ==
  /\ reqs[p].pc = "idle"
  /\ nextRideId <= MaxRides
  /\ \E sid \in Presented, b \in inputs :
       LET u == getCurrentUser(sid)
           r == [Idle EXCEPT !.op = "CreateRide", !.sessionId = sid, !.userId = u,
                             !.body = b] IN
       /\ u \in Creators
       /\ IF ~ValidRideInput(b)
          THEN /\ Step(p, [r EXCEPT !.pc = "done", !.res = Err(400, "ZodError")])
               /\ UNCHANGED <<rides, nextRideId, manualStatus>>
          ELSE /\ rides' = MapSet(rides, nextRideId, createRide(b, u, nextRideId))
               /\ nextRideId' = nextRideId + 1
               /\ Step(p, [r EXCEPT !.pc = "respond", !.res = Ok(201),
                                    !.ride = createRide(b, u, nextRideId)])
  /\ UNCHANGED <<bookings, nextBookingId, manualStatus, auth>>

\* ---- PATCH /api/rides/:id -------------------------------------------------
\* first stretch: storage.getRide is called, the handler awaits it
UpdateRideStart(p, patches) ==
  /\ reqs[p].pc = "idle"
  /\ \E sid \in Presented, id \in 1..MaxRides, patch \in patches :
       /\ getCurrentUser(sid) # Null
       /\ Step(p, [Idle EXCEPT !.op = "UpdateRide", !.pc = "check", !.sessionId = sid,
                               !.userId = getCurrentUser(sid),
                               !.body = [id |-> id, patch |-> patch],
                               !.ride = getRide(id)])
  /\ UNCHANGED <<rides, bookings, nextRideId, nextBookingId, manualStatus, auth>>

\* the status a creator's patch carries
PatchStatus(patch) == IF "status" \in DOMAIN patch THEN patch.status ELSE ""

\* the handlers without their creator check
NotCreator_Never(ride, userId) == FALSE

\* the caller may edit the ride it loaded
NotCreator(ride, userId) == ride.creatorId # userId

\* second stretch: the checks, then storage.updateRide(id, req.body, false)
UpdateRideCheck(p) ==
  LET r == reqs[p] IN
  /\ r.op = "UpdateRide" /\ r.pc = "check"
  /\ IF r.ride = Undefined
     THEN Finish(p, Err(404, "Ride not found")) /\ UNCHANGED <<rides, manualStatus>>
     ELSE IF NotCreator(r.ride, r.userId)
     THEN Finish(p, Err(403, "Not authorized to update this ride"))
          /\ UNCHANGED <<rides, manualStatus>>
     ELSE /\ rides' = updateRide(r.body.id, r.body.patch, FALSE)
          /\ manualStatus' = [manualStatus EXCEPT ![r.body.id] = PatchStatus(r.body.patch)]
          /\ Step(p, [r EXCEPT !.pc = "respond", !.res = Ok(200)])
  /\ UNCHANGED <<bookings, nextRideId, nextBookingId, auth>>

\* ---- DELETE /api/rides/:id ------------------------------------------------
DeleteRideStart(p) ==
  /\ reqs[p].pc = "idle"
  /\ \E sid \in Presented, id \in 1..MaxRides :
       /\ getCurrentUser(sid) # Null
       /\ Step(p, [Idle EXCEPT !.op = "DeleteRide", !.pc = "check", !.sessionId = sid,
                               !.userId = getCurrentUser(sid),
                               !.body = [id |-> id], !.ride = getRide(id)])
  /\ UNCHANGED <<rides, bookings, nextRideId, nextBookingId, manualStatus, auth>>

DeleteRideCheck(p) ==
  LET r == reqs[p] IN
  /\ r.op = "DeleteRide" /\ r.pc = "check"
  /\ IF r.ride = Undefined
     THEN Finish(p, Err(404, "Ride not found")) /\ UNCHANGED rides
     ELSE IF NotCreator(r.ride, r.userId)
     THEN Finish(p, Err(403, "Not authorized to delete this ride")) /\ UNCHANGED rides
     ELSE /\ rides' = deleteRide(r.body.id)
          /\ Step(p, [r EXCEPT !.pc = "respond", !.res = Ok(200)])
  /\ UNCHANGED <<bookings, nextRideId, nextBookingId, manualStatus, auth>>

\* ---- POST /api/bookings ---------------------------------------------------
\* CreateBooking handlers that have not inserted their booking yet
PendingBookings == {q \in Slots : reqs[q].op = "CreateBooking" /\ reqs[q].pc = "check"}

\* first stretch: the body is validated and storage.getRide is called
CreateBookingStart(p) ==
  /\ reqs[p].pc = "idle"
  /\ nextBookingId + Cardinality(PendingBookings) <= MaxBookings
  /\ \E sid \in Presented, b \in BookingInputs :
       LET r == [Idle EXCEPT !.op = "CreateBooking", !.sessionId = sid,
                             !.userId = getCurrentUser(sid), !.body = b] IN
       /\ getCurrentUser(sid) # Null
       /\ IF ~ValidBookingInput(b)
          THEN Step(p, [r EXCEPT !.pc = "done", !.res = Err(400, "ZodError")])
          ELSE Step(p, [r EXCEPT !.pc = "check", !.ride = getRide(b.rideId)])
  /\ UNCHANGED <<rides, bookings, nextRideId, nextBookingId, manualStatus, auth>>

\* the handler without its self-booking check
IsCreator_Never(ride, userId) == FALSE

\* "Check if user is the creator"
IsCreator(ride, userId) == ride.creatorId = userId

\* the seat check asking only whether any seat is left
NotEnoughSeats_NoneLeft(ride, seatsBooked) == ride.availableSeats <= 0

\* the seat check made only on a ride that is not FULL, as if the status
\* check came first
NotEnoughSeats_StatusFirst(ride, seatsBooked) ==
  ride.status # "FULL" /\ ride.availableSeats < seatsBooked

\* "Check if ride has enough seats"
NotEnoughSeats(ride, seatsBooked) == ride.availableSeats < seatsBooked

\* a status check that takes FULL to mean that no seat is left
NotOpen_Exhausted(ride) == ride.status = "FULL" /\ ride.availableSeats <= 0

\* "Check if ride is still open"
NotOpen(ride) == ride.status = "FULL"

\* the availableSeats the handler writes back after booking
SeatsAfterBooking(ride, seatsBooked) == ride.availableSeats - seatsBooked

\* second stretch: the checks on the loaded ride, then storage.createBooking
CreateBookingCheck(p) ==
  LET r == reqs[p] IN
  /\ r.op = "CreateBooking" /\ r.pc = "check"
  /\ IF r.ride = Undefined
     THEN Finish(p, Err(404, "Ride not found")) /\ UNCHANGED <<bookings, nextBookingId>>
     ELSE IF IsCreator(r.ride, r.userId)
     THEN Finish(p, Err(400, "Cannot book your own ride"))
          /\ UNCHANGED <<bookings, nextBookingId, manualStatus>>
     ELSE IF NotEnoughSeats(r.ride, r.body.seatsBooked)
     THEN Finish(p, Err(400, "Not enough seats available"))
          /\ UNCHANGED <<bookings, nextBookingId, manualStatus>>
     ELSE IF NotOpen(r.ride)
     THEN Finish(p, Err(400, "This ride is fully booked"))
          /\ UNCHANGED <<bookings, nextBookingId, manualStatus>>
     ELSE LET booking == createBooking(r.body, r.userId, r.ride.pricePerHead,
                                       nextBookingId) IN
          /\ bookings' = MapSet(bookings, nextBookingId, booking)
          /\ nextBookingId' = nextBookingId + 1
          /\ Step(p, [r EXCEPT !.pc = "updateRide", !.booking = booking])
  /\ UNCHANGED <<rides, nextRideId, manualStatus, auth>>

\* third stretch: storage.updateRide with the seat count computed from the
\* ride loaded in the first stretch
CreateBookingUpdateRide(p) ==
  LET r == reqs[p] IN
  /\ r.op = "CreateBooking" /\ r.pc = "updateRide"
  /\ rides' = updateRide(r.body.rideId,
                         [availableSeats |-> SeatsAfterBooking(r.ride, r.body.seatsBooked)],
                         TRUE)
  /\ Step(p, [r EXCEPT !.pc = "respond", !.res = Ok(201)])
  /\ UNCHANGED <<bookings, nextRideId, nextBookingId, manualStatus, auth>>

\* ---- DELETE /api/bookings/:id ---------------------------------------------
\* first stretch: storage.getBooking is called
CancelBookingStart(p) ==
  /\ reqs[p].pc = "idle"
  /\ \E sid \in Presented, id \in 1..MaxBookings :
       /\ getCurrentUser(sid) # Null
       /\ Step(p, [Idle EXCEPT !.op = "CancelBooking", !.pc = "check", !.sessionId = sid,
                               !.userId = getCurrentUser(sid),
                               !.body = [id |-> id], !.booking = getBooking(id)])
  /\ UNCHANGED <<rides, bookings, nextRideId, nextBookingId, manualStatus, auth>>

\* the handler without its owner check
NotOwner_Never(booking, userId) == FALSE

\* the caller owns the booking it loaded
NotOwner(booking, userId) == booking.userId # userId

\* the handler without its double-cancellation guard
AlreadyCancelled_Never(booking) == FALSE

\* the double-cancellation guard
AlreadyCancelled(booking) == booking.status = "CANCELLED"

\* a cancellation that gives back one seat whatever the booking held
SeatsAfterCancel_OneSeat(ride, booking) == ride.availableSeats + 1

\* the availableSeats the handler writes back after a cancellation
SeatsAfterCancel(ride, booking) == ride.availableSeats + booking.seatsBooked

\* second stretch: the checks on the loaded booking, then storage.cancelBooking
CancelBookingCheck(p) ==
  LET r == reqs[p] IN
  /\ r.op = "CancelBooking" /\ r.pc = "check"
  /\ IF r.booking = Undefined
     THEN Finish(p, Err(404, "Booking not found")) /\ UNCHANGED bookings
     ELSE IF NotOwner(r.booking, r.userId)
     THEN Finish(p, Err(403, "Not authorized to cancel this booking"))
          /\ UNCHANGED bookings
     ELSE IF AlreadyCancelled(r.booking)
     THEN Finish(p, Err(400, "Booking already cancelled")) /\ UNCHANGED bookings
     ELSE /\ bookings' = cancelBooking(r.body.id)
          /\ Step(p, [r EXCEPT !.pc = "getRide"])
  /\ UNCHANGED <<rides, nextRideId, nextBookingId, manualStatus, auth>>

\* third stretch: storage.getRide(booking.rideId) is called
CancelBookingGetRide(p) ==
  LET r == reqs[p] IN
  /\ r.op = "CancelBooking" /\ r.pc = "getRide"
  /\ Step(p, [r EXCEPT !.pc = "updateRide", !.ride = getRide(r.booking.rideId)])
  /\ UNCHANGED <<rides, bookings, nextRideId, nextBookingId, manualStatus, auth>>

\* fourth stretch: the seats are restored if the ride was found
CancelBookingUpdateRide(p) ==
  LET r == reqs[p] IN
  /\ r.op = "CancelBooking" /\ r.pc = "updateRide"
  /\ IF r.ride # Undefined
     THEN /\ rides' = updateRide(r.booking.rideId,
                                 [availableSeats |-> SeatsAfterCancel(r.ride, r.booking)],
                                 TRUE)
          /\ Step(p, [r EXCEPT !.pc = "respond", !.res = Ok(200)])
     ELSE /\ UNCHANGED rides
          /\ Finish(p, Ok(200))
  /\ UNCHANGED <<bookings, nextRideId, nextBookingId, manualStatus, auth>>

\* a response that is never sent
Respond_Never(p) ==
  /\ reqs[p].pc = "respond"
  /\ UNCHANGED vars

\* ---- the last stretch of a handler: the response is sent ------------------
Respond(p) ==
  /\ reqs[p].pc = "respond"
  /\ Step(p, [reqs[p] EXCEPT !.pc = "done"])
  /\ UNCHANGED <<rides, bookings, nextRideId, nextBookingId, manualStatus, auth>>

\* the connection is closed and the slot serves the next request
Recycle(p) ==
  /\ reqs[p].pc = "done"
  /\ Step(p, Idle)
  /\ UNCHANGED <<rides, bookings, nextRideId, nextBookingId, manualStatus, auth>>

\* no handler is running
Quiet == \A q \in Slots : reqs[q].pc = "idle"

\* every request received so far has been answered
NoneInFlight == \A q \in Slots : reqs[q].pc \in {"idle", "done"}

\* ---- every handler, interleaved at every await ----------------------------
Next ==
  \E p \in Slots :
    \/ CreateRide(p, RideInputs)
    \/ UpdateRideStart(p, Patches)
    \/ UpdateRideCheck(p)
    \/ DeleteRideStart(p)
    \/ DeleteRideCheck(p)
    \/ CreateBookingStart(p)
    \/ CreateBookingCheck(p)
    \/ CreateBookingUpdateRide(p)
    \/ CancelBookingStart(p)
    \/ CancelBookingCheck(p)
    \/ CancelBookingGetRide(p)
    \/ CancelBookingUpdateRide(p)
    \/ Respond(p)
    \/ Recycle(p)

Spec == Init /\ [][Next]_vars

\* ---- rides that only receive CreateBooking calls, interleaved -------------
NextBookOnly ==
  \E p \in Slots :
    \/ CreateRide(p, SeatRideInputs)
    \/ CreateBookingStart(p)
    \/ CreateBookingCheck(p)
    \/ CreateBookingUpdateRide(p)
    \/ Respond(p)
    \/ Recycle(p)

SpecBookOnly == Init /\ [][NextBookOnly]_vars

\* ---- every handler but the creator's edit, interleaved --------------------
NextNoEdit ==
  \E p \in Slots :
    \/ CreateRide(p, SeatRideInputs)
    \/ DeleteRideStart(p)
    \/ DeleteRideCheck(p)
    \/ CreateBookingStart(p)
    \/ CreateBookingCheck(p)
    \/ CreateBookingUpdateRide(p)
    \/ CancelBookingStart(p)
    \/ CancelBookingCheck(p)
    \/ CancelBookingGetRide(p)
    \/ CancelBookingUpdateRide(p)
    \/ Respond(p)
    \/ Recycle(p)

SpecNoEdit == Init /\ [][NextNoEdit]_vars

\* ---- requests that do not overlap: CreateRide, CreateBooking, CancelBooking
NextSerial ==
  \E p \in Slots :
    \/ Quiet /\ CreateRide(p, SeatRideInputs)
    \/ Quiet /\ CreateBookingStart(p)
    \/ CreateBookingCheck(p)
    \/ CreateBookingUpdateRide(p)
    \/ Quiet /\ CancelBookingStart(p)
    \/ CancelBookingCheck(p)
    \/ CancelBookingGetRide(p)
    \/ CancelBookingUpdateRide(p)
    \/ Respond(p)
    \/ Recycle(p)

SpecSerial == Init /\ [][NextSerial]_vars

\* ---- requests that do not overlap: every handler --------------------------
NextSerialEdit ==
  \E p \in Slots :
    \/ Quiet /\ CreateRide(p, SeatRideInputs)
    \/ Quiet /\ UpdateRideStart(p, SeatPatches)
    \/ UpdateRideCheck(p)
    \/ Quiet /\ DeleteRideStart(p)
    \/ DeleteRideCheck(p)
    \/ Quiet /\ CreateBookingStart(p)
    \/ CreateBookingCheck(p)
    \/ CreateBookingUpdateRide(p)
    \/ Quiet /\ CancelBookingStart(p)
    \/ CancelBookingCheck(p)
    \/ CancelBookingGetRide(p)
    \/ CancelBookingUpdateRide(p)
    \/ Respond(p)
    \/ Recycle(p)

SpecSerialEdit == Init /\ [][NextSerialEdit]_vars

\* ---- requests that do not overlap: every handler, edits of the price ------
NextSerialPrice ==
  \E p \in Slots :
    \/ Quiet /\ CreateRide(p, RideInputs)
    \/ Quiet /\ UpdateRideStart(p, PricePatches)
    \/ UpdateRideCheck(p)
    \/ Quiet /\ DeleteRideStart(p)
    \/ DeleteRideCheck(p)
    \/ Quiet /\ CreateBookingStart(p)
    \/ CreateBookingCheck(p)
    \/ CreateBookingUpdateRide(p)
    \/ Quiet /\ CancelBookingStart(p)
    \/ CancelBookingCheck(p)
    \/ CancelBookingGetRide(p)
    \/ CancelBookingUpdateRide(p)
    \/ Respond(p)
    \/ Recycle(p)

SpecSerialPrice == Init /\ [][NextSerialPrice]_vars

\* ---- requests that do not overlap: every handler but the creator's edit ---
NextSerialDelete ==
  \E p \in Slots :
    \/ Quiet /\ CreateRide(p, SeatRideInputs)
    \/ Quiet /\ DeleteRideStart(p)
    \/ DeleteRideCheck(p)
    \/ Quiet /\ CreateBookingStart(p)
    \/ CreateBookingCheck(p)
    \/ CreateBookingUpdateRide(p)
    \/ Quiet /\ CancelBookingStart(p)
    \/ CancelBookingCheck(p)
    \/ CancelBookingGetRide(p)
    \/ CancelBookingUpdateRide(p)
    \/ Respond(p)
    \/ Recycle(p)

SpecSerialDelete == Init /\ [][NextSerialDelete]_vars

\* ---- CreateBooking and CancelBooking interleaved, each cancellation aimed ---
\* ---- at a BOOKED booking that no other running cancellation targets -------
\* DELETE /api/bookings/:id arrives for a booking that is BOOKED and that no
\* cancellation in flight has loaded
CancelBookedStart(p) ==
  /\ CancelBookingStart(p)
  /\ reqs'[p].booking # Undefined
  /\ reqs'[p].booking.status = "BOOKED"
  /\ \A q \in Slots \ {p} :
       ~(/\ reqs[q].op = "CancelBooking"
         /\ reqs[q].pc \notin {"idle", "done"}
         /\ reqs[q].body.id = reqs'[p].body.id)

NextBookCancel ==
  \E p \in Slots :
    \/ CreateRide(p, SeatRideInputs)
    \/ CreateBookingStart(p)
    \/ CreateBookingCheck(p)
    \/ CreateBookingUpdateRide(p)
    \/ CancelBookedStart(p)
    \/ CancelBookingCheck(p)
    \/ CancelBookingGetRide(p)
    \/ CancelBookingUpdateRide(p)
    \/ Respond(p)
    \/ Recycle(p)

SpecBookCancel == Init /\ [][NextBookCancel]_vars

\* ---- requests that do not overlap: every handler, signed prices in the ----
\* ---- bodies of POST /api/rides, edits of totalSeats, creatorId and id -----
NextSerialFields ==
  \E p \in Slots :
    \/ Quiet /\ CreateRide(p, SignedRideInputs)
    \/ Quiet /\ UpdateRideStart(p, FieldPatches)
    \/ UpdateRideCheck(p)
    \/ Quiet /\ DeleteRideStart(p)
    \/ DeleteRideCheck(p)
    \/ Quiet /\ CreateBookingStart(p)
    \/ CreateBookingCheck(p)
    \/ CreateBookingUpdateRide(p)
    \/ Quiet /\ CancelBookingStart(p)
    \/ CancelBookingCheck(p)
    \/ CancelBookingGetRide(p)
    \/ CancelBookingUpdateRide(p)
    \/ Respond(p)
    \/ Recycle(p)

SpecSerialFields == Init /\ [][NextSerialFields]_vars

\* ---- GET /api/rides --------------------------------------------------------
MaxListed == 2       \* rides in the store that is listed
MaxTime == 2         \* clock readings of createdAt

\* text is a sequence of characters
Chars == {"a", "A", "b", "B"}

\* a comparison of the characters as they are
toLowerCase_Keep(s) == s

\* String.prototype.toLowerCase
toLowerCase(s) ==
  [i \in 1..Len(s) |-> CASE s[i] = "A" -> "a" [] s[i] = "B" -> "b" [] OTHER -> s[i]]

\* String.prototype.includes
includes(s, t) ==
  \E i \in 0..(Len(s) - Len(t)) : SubSeq(s, i + 1, i + Len(t)) = t

\* the from and to of stored rides (insertRideSchema: at least 2 characters)
Places == {<<"A", "b">>, <<"b", "b">>}

Dates == {"d1", "d2"}

VehicleTypes == {"car", "bike"}

\* the fields of a Ride that getAllRides reads
ListedRides ==
  [id : 1..MaxListed, from : Places, to : Places, date : Dates,
   vehicleType : VehicleTypes, createdAt : 1..MaxTime]

\* the values of the query string
FromFilters == {<<>>, <<"a">>, <<"a", "B">>, <<"b", "A">>}

ToFilters == {<<"B">>, <<"A", "A">>}

DateFilters == Dates \cup {""}

VehicleFilters == VehicleTypes \cup {"all", ""}

\* the filters object of the handler: a key that the query string lacks is
\* undefined
FilterOf(hasFrom, from, hasTo, to, hasDate, date, hasVehicle, vehicleType) ==
  [k \in (IF hasFrom THEN {"from"} ELSE {}) \cup (IF hasTo THEN {"to"} ELSE {})
        \cup (IF hasDate THEN {"date"} ELSE {})
        \cup (IF hasVehicle THEN {"vehicleType"} ELSE {}) |->
     CASE k = "from" -> from
       [] k = "to" -> to
       [] k = "date" -> date
       [] k = "vehicleType" -> vehicleType]

\* a text filter is truthy: defined and not the empty string
TruthyText(filters, k) == k \in DOMAIN filters /\ filters[k] # <<>>

TruthyString(filters, k) == k \in DOMAIN filters /\ filters[k] # ""

RECURSIVE ValuesFrom(_, _)
\* Array.from(map.values()): the values in insertion order, which is the order
\* of the ids
ValuesFrom(m, S) ==
  IF S = {} THEN <<>>
  ELSE LET k == CHOOSE x \in S : \A y \in S : x <= y IN
       <<m[k]>> \o ValuesFrom(m, S \ {k})

\* one insertion of the stable sort by createdAt, newest first
InsertNewest(sorted, r) ==
  LET n == Cardinality({i \in 1..Len(sorted) : sorted[i].createdAt >= r.createdAt}) IN
  SubSeq(sorted, 1, n) \o <<r>> \o SubSeq(sorted, n + 1, Len(sorted))

RECURSIVE SortNewestFirst(_)
\* Array.prototype.sort with (a, b) => b.createdAt - a.createdAt
SortNewestFirst(s) ==
  IF s = <<>> THEN <<>>
  ELSE InsertNewest(SortNewestFirst(SubSeq(s, 1, Len(s) - 1)), s[Len(s)])

\* MemStorage.getAllRides
getAllRides(filters) ==
  LET sorted == SortNewestFirst(ValuesFrom(rides, DOMAIN rides))
      byFrom == IF TruthyText(filters, "from")
                THEN SelectSeq(sorted, LAMBDA r :
                       includes(toLowerCase(r.from), toLowerCase(filters.from)))
                ELSE sorted
      byTo == IF TruthyText(filters, "to")
              THEN SelectSeq(byFrom, LAMBDA r :
                     includes(toLowerCase(r.to), toLowerCase(filters.to)))
              ELSE byFrom
      byDate == IF TruthyString(filters, "date")
                THEN SelectSeq(byTo, LAMBDA r : r.date = filters.date)
                ELSE byTo
  IN IF TruthyString(filters, "vehicleType") /\ filters.vehicleType # "all"
     THEN SelectSeq(byDate, LAMBDA r : r.vehicleType = filters.vehicleType)
     ELSE byDate

\* a store of rides as POST /api/rides leaves it: ids in creation order, the
\* clock never running backwards
ListedStores ==
  {m \in UNION {[1..n -> ListedRides] : n \in 0..MaxListed} :
     /\ \A k \in DOMAIN m : m[k].id = k
     /\ \A j, k \in DOMAIN m : j < k => m[j].createdAt <= m[k].createdAt}

InitListing ==
  /\ rides \in ListedStores
  /\ bookings = EmptyMap
  /\ nextRideId = Cardinality(DOMAIN rides) + 1
  /\ nextBookingId = 1
  /\ reqs = [p \in Slots |-> Idle]
  /\ manualStatus = [id \in 1..MaxRides |-> ""]
  /\ SignedIn

\* the handler calls storage.getAllRides; the list it answers is the one this
\* call returned
ListRides(p) ==
  /\ reqs[p].pc = "idle"
  /\ \E hasFrom, hasTo, hasDate, hasVehicle \in BOOLEAN,
        from \in FromFilters, to \in ToFilters,
        date \in DateFilters, vehicleType \in VehicleFilters :
       LET filters == FilterOf(hasFrom, from, hasTo, to, hasDate, date,
                               hasVehicle, vehicleType) IN
       Step(p, [Idle EXCEPT !.op = "ListRides", !.pc = "respond", !.body = filters,
                            !.res = [status |-> 200, error |-> "",
                                     rides |-> getAllRides(filters)]])
  /\ UNCHANGED <<rides, bookings, nextRideId, nextBookingId, manualStatus, auth>>

NextListing ==
  \E p \in Slots :
    \/ Quiet /\ ListRides(p)
    \/ Respond(p)
    \/ Recycle(p)

SpecListing == InitListing /\ [][NextListing]_vars

\* ---- POST /api/auth/login --------------------------------------------------
\* logins that may still create a user and a session
PendingLogins ==
  {q \in Slots : reqs[q].op = "Login" /\ reqs[q].pc \in {"check", "session"}}

\* first stretch: the body is looked at and storage.getUserByEmail is called
LoginStart(p) ==
  /\ reqs[p].pc = "idle"
  /\ Cardinality(DOMAIN users) + Cardinality(PendingLogins) < MaxUsers
  /\ nextSessionId + Cardinality(PendingLogins) <= MaxSessions
  /\ \E email \in LoginEmails, name \in LoginNames :
       LET r == [Idle EXCEPT !.op = "Login",
                             !.body = [email |-> email, name |-> name]] IN
       IF email = <<>> \/ name = <<>>
       THEN Step(p, [r EXCEPT !.pc = "done",
                              !.res = Err(400, "Email and name are required")])
       ELSE Step(p, [r EXCEPT !.pc = "check", !.user = getUserByEmail(email)])
  /\ UNCHANGED <<rides, bookings, nextRideId, nextBookingId, manualStatus, auth>>

\* sessions.set(crypto.randomUUID(), user.id) and the answer
OpenSession(p, user) ==
  /\ sessions' = MapSet(sessions, nextSessionId, user.id)
  /\ nextSessionId' = nextSessionId + 1
  /\ Step(p, [reqs[p] EXCEPT !.pc = "respond", !.user = user,
                             !.res = [status |-> 200, error |-> "",
                                      sessionId |-> nextSessionId]])

\* second stretch: a user that was found gets its session; for none found the
\* body is parsed and storage.createUser is called
LoginCheck(p) ==
  LET r == reqs[p] IN
  /\ r.op = "Login" /\ r.pc = "check"
  /\ IF r.user # Undefined
     THEN OpenSession(p, r.user) /\ UNCHANGED users
     ELSE IF ~ValidUserInput(r.body)
     THEN Finish(p, Err(400, "ZodError")) /\ UNCHANGED auth
     ELSE LET user == createUser(r.body, UserIds[NextUser], NextUser) IN
          /\ users' = MapSet(users, user.id, user)
          /\ Step(p, [r EXCEPT !.pc = "session", !.user = user])
          /\ UNCHANGED <<sessions, nextSessionId>>
  /\ UNCHANGED <<rides, bookings, nextRideId, nextBookingId, manualStatus>>

\* third stretch, after createUser: the new user gets its session
LoginSession(p) ==
  /\ reqs[p].op = "Login" /\ reqs[p].pc = "session"
  /\ OpenSession(p, reqs[p].user)
  /\ UNCHANGED <<rides, bookings, nextRideId, nextBookingId, manualStatus, users>>

\* ---- POST /api/auth/logout -------------------------------------------------
Logout(p) ==
  /\ reqs[p].pc = "idle"
  /\ \E sid \in Presented :
       /\ sessions' = IF sid # NoSession THEN MapDelete(sessions, sid) ELSE sessions
       /\ Step(p, [Idle EXCEPT !.op = "Logout", !.pc = "respond", !.sessionId = sid,
                               !.res = Ok(200)])
  /\ UNCHANGED <<rides, bookings, nextRideId, nextBookingId, manualStatus,
                 users, nextSessionId>>

\* ---- requireAuth turns a request away --------------------------------------
Unauthorized(p) ==
  /\ reqs[p].pc = "idle"
  /\ \E sid \in Presented, op \in GatedOps :
       /\ getCurrentUser(sid) = Null
       /\ Step(p, [Idle EXCEPT !.op = op, !.pc = "done", !.sessionId = sid,
                               !.res = Err(401, "Unauthorized")])
  /\ UNCHANGED <<rides, bookings, nextRideId, nextBookingId, manualStatus, auth>>

\* ---- the state after construction ------------------------------------------
InitEmpty ==
  /\ rides = EmptyMap
  /\ bookings = EmptyMap
  /\ nextRideId = 1
  /\ nextBookingId = 1
  /\ reqs = [p \in Slots |-> Idle]
  /\ manualStatus = [id \in 1..MaxRides |-> ""]
  /\ users = EmptyMap
  /\ sessions = EmptyMap
  /\ nextSessionId = 1

\* ---- logins and logouts, interleaved at every await ------------------------
NextLogin ==
  \E p \in Slots :
    \/ LoginStart(p)
    \/ LoginCheck(p)
    \/ LoginSession(p)
    \/ Logout(p)
    \/ Respond(p)
    \/ Recycle(p)

SpecLogin == InitEmpty /\ [][NextLogin]_vars

\* ---- requests that do not overlap: logins, logouts and the gated requests --
NextAuth ==
  \E p \in Slots :
    \/ Quiet /\ LoginStart(p)
    \/ LoginCheck(p)
    \/ LoginSession(p)
    \/ Quiet /\ Logout(p)
    \/ Quiet /\ Unauthorized(p)
    \/ Quiet /\ CreateRide(p, SeatRideInputs)
    \/ Quiet /\ UpdateRideStart(p, PricePatches)
    \/ UpdateRideCheck(p)
    \/ Quiet /\ DeleteRideStart(p)
    \/ DeleteRideCheck(p)
    \/ Quiet /\ CreateBookingStart(p)
    \/ CreateBookingCheck(p)
    \/ CreateBookingUpdateRide(p)
    \/ Quiet /\ CancelBookingStart(p)
    \/ CancelBookingCheck(p)
    \/ CancelBookingGetRide(p)
    \/ CancelBookingUpdateRide(p)
    \/ Respond(p)
    \/ Recycle(p)

SpecAuth == InitEmpty /\ [][NextAuth]_vars

\* ---- one ride with seats left, edited in its price, booked, cancelled and --
\* ---- deleted by one request per slot, interleaved at every await -----------
\* the store once u1 has created a ride and, maybe, u2 has booked a seat on it
InitRace ==
  /\ \E booked \in BOOLEAN :
       LET insertRide == [availableSeats |-> MaxSeats, pricePerHead |-> MaxPrice]
           insertBooking == [rideId |-> 1, seatsBooked |-> 1] IN
       /\ rides = MapSet(EmptyMap, 1,
                         [createRide(insertRide, "u1", 1) EXCEPT
                            !.availableSeats = IF booked THEN MaxSeats - 1 ELSE MaxSeats])
       /\ bookings = IF booked
                     THEN MapSet(EmptyMap, 1, createBooking(insertBooking, "u2", MaxPrice, 1))
                     ELSE EmptyMap
       /\ nextBookingId = IF booked THEN 2 ELSE 1
  /\ nextRideId = 2
  /\ reqs = [p \in Slots |-> Idle]
  /\ manualStatus = [id \in 1..MaxRides |-> ""]
  /\ SignedIn

\* the stretches that follow an await of the handler in slot p
Advance(p) ==
  \/ UpdateRideCheck(p)
  \/ DeleteRideCheck(p)
  \/ CreateBookingCheck(p)
  \/ CreateBookingUpdateRide(p)
  \/ CancelBookingCheck(p)
  \/ CancelBookingGetRide(p)
  \/ CancelBookingUpdateRide(p)
  \/ Respond(p)

NextRace ==
  \E p \in Slots :
    \/ UpdateRideStart(p, PricePatches)
    \/ DeleteRideStart(p)
    \/ CreateBookingStart(p)
    \/ CancelBookingStart(p)
    \/ Advance(p)

SpecRace == InitRace /\ [][NextRace]_vars

\* the event loop runs every continuation that is ready
SpecRaceFair == SpecRace /\ \A p \in Slots : WF_vars(Advance(p))

\* ==== properties ===========================================================
RECURSIVE SumSeats(_)
\* the seats of a set of booking ids
SumSeats(S) ==
  IF S = {} THEN 0
  ELSE LET b == CHOOSE x \in S : TRUE IN bookings[b].seatsBooked + SumSeats(S \ {b})

\* the BOOKED bookings of a ride
BookedOn(id) ==
  {b \in DOMAIN bookings : bookings[b].rideId = id /\ bookings[b].status = "BOOKED"}

\* I4 for one stored ride
Accounted(id) ==
  rides[id].totalSeats - rides[id].availableSeats = SumSeats(BookedOn(id))

\* the taxonomy's errors as the handlers answer them
InsufficientCapacity == Err(400, "Not enough seats available")

AlreadyCancelledError == Err(400, "Booking already cancelled")

\* slot p holds an answered CreateBooking for one seat that loaded the ride
\* OPEN with one seat left, sent by a user who is not the creator
LastSeatCall(p) ==
  /\ reqs[p].op = "CreateBooking" /\ reqs[p].pc = "done"
  /\ reqs[p].body.seatsBooked = 1
  /\ reqs[p].ride # Undefined
  /\ reqs[p].ride.availableSeats = 1 /\ reqs[p].ride.status = "OPEN"
  /\ reqs[p].ride.creatorId # reqs[p].userId

\* slot p holds an answered CancelBooking by the owner that loaded the booking
\* as BOOKED
OwnerCancelCall(p) ==
  /\ reqs[p].op = "CancelBooking" /\ reqs[p].pc = "done"
  /\ reqs[p].booking # Undefined
  /\ reqs[p].booking.status = "BOOKED"
  /\ reqs[p].booking.userId = reqs[p].userId

\* the call in slot p wrote the restored seat count to the ride
Restored(p) == reqs[p].res.status = 200 /\ reqs[p].ride # Undefined

\* C1: once every CreateBooking call on a ride has returned, the seats of its
\* BOOKED bookings add up to totalSeats - availableSeats.
C1_NoOverbooking ==
  NoneInFlight => \A id \in DOMAIN rides : Accounted(id)

\* C2: of two one-seat CreateBooking calls by different non-creator users that
\* both loaded the ride OPEN with one seat left, exactly one is answered 201
\* and the other is rejected for insufficient capacity.
C2_LastSeatRace ==
  \A p, q \in Slots :
    (/\ p # q
     /\ LastSeatCall(p) /\ LastSeatCall(q)
     /\ reqs[p].body.rideId = reqs[q].body.rideId
     /\ reqs[p].userId # reqs[q].userId)
    => \/ reqs[p].res.status = 201 /\ reqs[q].res = InsufficientCapacity
       \/ reqs[q].res.status = 201 /\ reqs[p].res = InsufficientCapacity

\* C3: of two CancelBooking calls by the owner that both loaded the same
\* booking as BOOKED, exactly one succeeds, the other is rejected as already
\* cancelled, and only one of them writes the restored seats to the ride.
C3_DoubleCancelRace ==
  \A p, q \in Slots :
    (/\ p # q
     /\ OwnerCancelCall(p) /\ OwnerCancelCall(q)
     /\ reqs[p].body.id = reqs[q].body.id)
    => /\ \/ reqs[p].res.status = 200 /\ reqs[q].res = AlreadyCancelledError
          \/ reqs[q].res.status = 200 /\ reqs[p].res = AlreadyCancelledError
       /\ ~(Restored(p) /\ Restored(q))

\* C4: every stored ride has 0 <= availableSeats <= totalSeats.
C4_SeatBounds ==
  \A id \in DOMAIN rides :
    0 <= rides[id].availableSeats /\ rides[id].availableSeats <= rides[id].totalSeats

\* C5: while rides only receive CreateBooking calls, however interleaved,
\* availableSeats is never negative.
C5_NeverNegative ==
  \A id \in DOMAIN rides : rides[id].availableSeats >= 0

\* two interleaved bookings took more seats than the ride has, and the seat
\* count stopped at zero
C5_Witness ==
  \E id \in DOMAIN rides :
    /\ rides[id].availableSeats = 0
    /\ SumSeats(BookedOn(id)) > rides[id].totalSeats

\* C6: when requests do not overlap and there are no creator edits or deletes,
\* after every completed request each ride has
\* totalSeats - availableSeats = the seats of its BOOKED bookings.
C6_SerialAccounting ==
  NoneInFlight =>
    \A id \in DOMAIN rides :
      rides[id].availableSeats + SumSeats(BookedOn(id)) = rides[id].totalSeats

\* a cancellation has completed on a ride that still has a BOOKED booking
C6_Witness ==
  /\ NoneInFlight
  /\ \E p \in Slots : reqs[p].op = "CancelBooking" /\ reqs[p].res.status = 200
  /\ \E id \in DOMAIN rides :
       /\ BookedOn(id) # {}
       /\ \E b \in DOMAIN bookings :
            bookings[b].rideId = id /\ bookings[b].status = "CANCELLED"

\* C7: when requests do not overlap, creator edits included, after every
\* completed request each ride has
\* totalSeats - availableSeats = the seats of its BOOKED bookings.
C7_EditAccounting ==
  \A id \in DOMAIN rides : NoneInFlight => Accounted(id)

\* slot q holds a CancelBooking of booking b that returned success
CancelledOk(q, b) ==
  /\ reqs[q].op = "CancelBooking" /\ reqs[q].pc = "done"
  /\ reqs[q].body.id = b /\ reqs[q].res.status = 200

\* C8: a CancelBooking by the owner that is issued after a CancelBooking of the
\* same booking returned success loads the booking as CANCELLED, and a call
\* that loaded it as CANCELLED is answered 400 "Booking already cancelled"
\* without writing to the bookings or the rides.
C8_SecondCancelRejected ==
  [][\A p \in Slots :
       LET r == reqs[p]
           n == reqs'[p]
       IN /\ (/\ r.pc = "idle" /\ n.op = "CancelBooking"
              /\ \E q \in Slots : CancelledOk(q, n.body.id))
             => n.booking # Undefined /\ n.booking.status = "CANCELLED"
          /\ (/\ r.op = "CancelBooking" /\ r.pc = "check" /\ n # r
              /\ r.booking # Undefined
              /\ r.booking.userId = r.userId
              /\ r.booking.status = "CANCELLED")
             => /\ n.pc = "done" /\ n.res = AlreadyCancelledError
                /\ rides' = rides /\ bookings' = bookings]_vars

\* a second cancellation was rejected while the first one's answer is known
C8_Witness ==
  \E p, q \in Slots :
    /\ reqs[p].op = "CancelBooking" /\ reqs[p].pc = "done"
    /\ CancelledOk(q, reqs[p].body.id)
    /\ reqs[p].booking # Undefined /\ reqs[p].booking.status = "CANCELLED"
    /\ reqs[p].res = AlreadyCancelledError

\* C9: a booking is created BOOKED, a CANCELLED booking stays CANCELLED, and
\* no step removes a booking record (DeleteRide of its ride included).
C9_BookingStateMachine ==
  [][/\ \A b \in DOMAIN bookings :
          /\ b \in DOMAIN bookings'
          /\ bookings[b].status = "CANCELLED" => bookings'[b].status = "CANCELLED"
     /\ \A b \in DOMAIN bookings' :
          /\ bookings'[b].status \in {"BOOKED", "CANCELLED"}
          /\ b \notin DOMAIN bookings => bookings'[b].status = "BOOKED"]_vars

\* a cancelled booking outlived its ride
C9_Witness ==
  \E b \in DOMAIN bookings :
    /\ bookings[b].status = "CANCELLED"
    /\ bookings[b].rideId \notin DOMAIN rides

\* C10: a ride whose creator's last edit set the status CANCELLED is never OPEN
\* afterwards, whatever bookings and cancellations follow.
C10_CancelledStays ==
  \A id \in DOMAIN rides : manualStatus[id] = "CANCELLED" => rides[id].status # "OPEN"

\* slot p is about to write the restored seats of a cancellation to ride id
RestoresTo(p, id) ==
  /\ reqs[p].op = "CancelBooking" /\ reqs[p].pc = "updateRide"
  /\ reqs'[p] # reqs[p]
  /\ reqs[p].ride # Undefined
  /\ reqs[p].booking.rideId = id
  /\ id \in DOMAIN rides

BooksOpenRide(p) ==
  /\ reqs[p].op = "CreateBooking"
  /\ reqs[p].ride # Undefined
  /\ reqs[p].ride.status = "OPEN"
  /\ reqs[p].ride.creatorId # reqs[p].userId

\* C12: when requests do not overlap, a CreateBooking on an OPEN ride for
\* exactly the seats that are left is accepted and stores availableSeats = 0
\* and status FULL; a booking that leaves seats stores status OPEN.
C12_LastSeatsFull ==
  [][\A p \in Slots :
       LET r == reqs[p]
           n == reqs'[p]
       IN /\ (/\ BooksOpenRide(p) /\ r.pc = "check" /\ n # r
              /\ r.body.seatsBooked = r.ride.availableSeats)
             => /\ n.pc = "updateRide"
                /\ n.booking # Undefined /\ n.booking.status = "BOOKED"
                /\ MapGet(bookings', n.booking.id) = n.booking
          /\ (BooksOpenRide(p) /\ r.pc = "updateRide" /\ n # r)
             => /\ n.res.status = 201
                /\ r.body.rideId \in DOMAIN rides'
                /\ LET after == rides'[r.body.rideId] IN
                   IF r.body.seatsBooked = r.ride.availableSeats
                   THEN after.availableSeats = 0 /\ after.status = "FULL"
                   ELSE after.availableSeats > 0 /\ after.status = "OPEN"]_vars

\* a booking took the last seats and the ride is FULL
C12_Witness ==
  \E p \in Slots :
    /\ BooksOpenRide(p) /\ reqs[p].pc = "done" /\ reqs[p].res.status = 201
    /\ reqs[p].body.seatsBooked = reqs[p].ride.availableSeats
    /\ reqs[p].body.rideId \in DOMAIN rides
    /\ rides[reqs[p].body.rideId].status = "FULL"

\* C13: without creator edits and without overlap, a successful cancellation
\* on a ride that bookings made FULL adds the booking's seats to
\* availableSeats and stores status OPEN.
C13_CancelReopens ==
  [][\A p \in Slots, id \in 1..MaxRides :
       (RestoresTo(p, id) /\ rides[id].status = "FULL")
       => /\ rides[id].availableSeats = 0
          /\ id \in DOMAIN rides'
          /\ rides'[id].availableSeats = reqs[p].booking.seatsBooked
          /\ rides'[id].status = "OPEN"
          /\ reqs'[p].res.status = 200]_vars

\* a cancellation reopened a ride it loaded as FULL
C13_Witness ==
  \E p \in Slots :
    /\ reqs[p].op = "CancelBooking" /\ reqs[p].pc = "done"
    /\ reqs[p].res.status = 200
    /\ reqs[p].ride # Undefined /\ reqs[p].ride.status = "FULL"
    /\ reqs[p].booking.rideId \in DOMAIN rides
    /\ rides[reqs[p].booking.rideId].status = "OPEN"

\* C14: no step of any handler changes the totalPrice of a booking that
\* exists, a creator's edit of pricePerHead included.
C14_PriceSnapshot ==
  [][\A b \in DOMAIN bookings :
       /\ b \in DOMAIN bookings'
       /\ bookings'[b].totalPrice = bookings[b].totalPrice]_vars

\* the ride's price was changed after the booking was made
C14_Witness ==
  \E b \in DOMAIN bookings :
    /\ bookings[b].rideId \in DOMAIN rides
    /\ bookings[b].totalPrice
         # bookings[b].seatsBooked * rides[bookings[b].rideId].pricePerHead

\* InvalidOperation as POST /api/bookings answers it
BookingInvalidOperation ==
  {Err(400, "Cannot book your own ride"), Err(400, "This ride is fully booked")}

\* C15: a CreateBooking that loaded the ride with a status other than OPEN and
\* with enough seats is answered InvalidOperation and inserts no booking.
C15_OnlyOpenBookable ==
  \A p \in Slots :
    LET r == reqs[p] IN
    (/\ r.op = "CreateBooking" /\ r.pc # "check"
     /\ r.ride # Undefined
     /\ r.ride.status # "OPEN"
     /\ r.ride.availableSeats >= r.body.seatsBooked)
    => /\ r.booking = Undefined
       /\ r.pc = "done"
       /\ r.res \in BookingInvalidOperation

\* C16: a CreateBooking by the creator of the ride it loaded is answered 400
\* "Cannot book your own ride" whatever the status and the seats, writes
\* nothing, and no booking is inserted for the creator of the loaded ride.
C16_NoSelfBooking ==
  [][\A p \in Slots :
       LET r == reqs[p]
           n == reqs'[p]
       IN /\ (/\ r.op = "CreateBooking" /\ r.pc = "check" /\ n # r
              /\ r.ride # Undefined
              /\ r.ride.creatorId = r.userId)
             => /\ n.pc = "done"
                /\ n.res = Err(400, "Cannot book your own ride")
                /\ rides' = rides /\ bookings' = bookings
          /\ (n.op = "CreateBooking" /\ n.booking # Undefined)
             => n.booking.userId # n.ride.creatorId]_vars

\* the creator was refused on a ride that is not OPEN and has no seat left
C16_Witness ==
  \E p \in Slots :
    /\ reqs[p].op = "CreateBooking" /\ reqs[p].pc = "done"
    /\ reqs[p].res = Err(400, "Cannot book your own ride")
    /\ reqs[p].ride.status = "CANCELLED"
    /\ reqs[p].ride.availableSeats < reqs[p].body.seatsBooked

\* C17: a CreateBooking by a user other than the creator for more seats than
\* the loaded ride has is answered "Not enough seats available" and writes
\* nothing, a ride that bookings filled included.
C17_InsufficientCapacity ==
  [][\A p \in Slots :
       LET r == reqs[p]
           n == reqs'[p]
       IN (/\ r.op = "CreateBooking" /\ r.pc = "check" /\ n # r
           /\ r.ride # Undefined
           /\ r.ride.creatorId # r.userId
           /\ r.body.seatsBooked > r.ride.availableSeats)
          => /\ n.pc = "done"
             /\ n.res = InsufficientCapacity
             /\ rides' = rides /\ bookings' = bookings]_vars

\* a booking was refused on a ride that bookings had filled
C17_Witness ==
  \E p \in Slots :
    /\ reqs[p].op = "CreateBooking" /\ reqs[p].pc = "done"
    /\ reqs[p].res = InsufficientCapacity
    /\ reqs[p].ride.availableSeats = 0 /\ reqs[p].ride.status = "FULL"
    /\ SumSeats(BookedOn(reqs[p].body.rideId)) = reqs[p].ride.totalSeats

\* C18: a CancelBooking of an unknown id is answered 404 and one by a caller
\* other than the booking's user (the ride's creator included) 403; neither
\* writes to the bookings or the rides.
C18_CancelAuthorization ==
  [][\A p \in Slots :
       LET r == reqs[p]
           n == reqs'[p]
       IN (r.op = "CancelBooking" /\ r.pc = "check" /\ n # r)
          => /\ r.booking = Undefined
                => /\ n.pc = "done" /\ n.res = Err(404, "Booking not found")
                   /\ rides' = rides /\ bookings' = bookings
             /\ (r.booking # Undefined /\ r.booking.userId # r.userId)
                => /\ n.pc = "done"
                   /\ n.res = Err(403, "Not authorized to cancel this booking")
                   /\ rides' = rides /\ bookings' = bookings]_vars

\* the creator of the ride was refused the cancellation of a BOOKED booking
C18_Witness ==
  \E p \in Slots :
    /\ reqs[p].op = "CancelBooking" /\ reqs[p].pc = "done"
    /\ reqs[p].res.status = 403
    /\ reqs[p].booking.status = "BOOKED"
    /\ reqs[p].booking.rideId \in DOMAIN rides
    /\ rides[reqs[p].booking.rideId].creatorId = reqs[p].userId

\* C19: an UpdateRide of an unknown id is answered 404 and one by a caller
\* other than the creator 403; neither changes any ride.
C19_EditAuthorization ==
  [][\A p \in Slots :
       LET r == reqs[p]
           n == reqs'[p]
       IN (r.op = "UpdateRide" /\ r.pc = "check" /\ n # r)
          => /\ r.ride = Undefined
                => /\ n.pc = "done" /\ n.res = Err(404, "Ride not found")
                   /\ rides' = rides
             /\ (r.ride # Undefined /\ r.ride.creatorId # r.userId)
                => /\ n.pc = "done"
                   /\ n.res = Err(403, "Not authorized to update this ride")
                   /\ rides' = rides]_vars

\* an edit by another user was refused and the ride is as it was created
C19_Witness ==
  \E p \in Slots :
    /\ reqs[p].op = "UpdateRide" /\ reqs[p].pc = "done"
    /\ reqs[p].res.status = 403
    /\ reqs[p].body.id \in DOMAIN rides
    /\ rides[reqs[p].body.id] = reqs[p].ride

\* C20: a DeleteRide by the creator removes that ride, leaves every other ride
\* and every booking as it was; one by another user is answered 403 and one of
\* an unknown id 404, and neither writes anything.
C20_DeleteRide ==
  [][\A p \in Slots :
       LET r == reqs[p]
           n == reqs'[p]
       IN (r.op = "DeleteRide" /\ r.pc = "check" /\ n # r)
          => /\ bookings' = bookings
             /\ IF r.ride = Undefined
                THEN /\ n.pc = "done" /\ n.res = Err(404, "Ride not found")
                     /\ rides' = rides
                ELSE IF r.ride.creatorId # r.userId
                THEN /\ n.pc = "done"
                     /\ n.res = Err(403, "Not authorized to delete this ride")
                     /\ rides' = rides
                ELSE /\ n.res.status = 200
                     /\ DOMAIN rides' = DOMAIN rides \ {r.body.id}
                     /\ \A k \in DOMAIN rides' : rides'[k] = rides[k]]_vars

\* a ride was deleted and a BOOKED booking still refers to it
C20_Witness ==
  /\ \E p \in Slots :
       /\ reqs[p].op = "DeleteRide" /\ reqs[p].pc = "done"
       /\ reqs[p].res.status = 200
       /\ reqs[p].body.id \notin DOMAIN rides
  /\ \E b \in DOMAIN bookings :
       bookings[b].status = "BOOKED" /\ bookings[b].rideId \notin DOMAIN rides

\* C21: a CreateRide with availableSeats n >= 1 and pricePerHead >= 0 stores
\* one new ride with totalSeats = availableSeats = n, status OPEN and the
\* caller as creatorId, and leaves the other rides alone; with n < 1 or
\* pricePerHead < 0 it is answered 400 and stores nothing.
C21_RideCreation ==
  [][\A p \in Slots :
       LET r == reqs[p]
           n == reqs'[p]
       IN (r.pc = "idle" /\ n.op = "CreateRide")
          => IF n.body.availableSeats >= 1 /\ n.body.pricePerHead >= 0
             THEN /\ n.res.status = 201
                  /\ \E id \in DOMAIN rides' \ DOMAIN rides :
                       /\ DOMAIN rides' = DOMAIN rides \cup {id}
                       /\ rides'[id].id = id
                       /\ rides'[id].totalSeats = n.body.availableSeats
                       /\ rides'[id].availableSeats = n.body.availableSeats
                       /\ rides'[id].pricePerHead = n.body.pricePerHead
                       /\ rides'[id].status = "OPEN"
                       /\ rides'[id].creatorId = n.userId
                  /\ \A k \in DOMAIN rides : rides'[k] = rides[k]
             ELSE /\ n.pc = "done" /\ n.res.status = 400
                  /\ rides' = rides]_vars

\* a free ride with the largest seat count was stored and answered
C21_Witness ==
  \E p \in Slots :
    /\ reqs[p].op = "CreateRide" /\ reqs[p].pc = "done"
    /\ reqs[p].res.status = 201
    /\ reqs[p].body.pricePerHead = 0 /\ reqs[p].body.availableSeats = MaxSeats
    /\ reqs[p].ride.id \in DOMAIN rides
    /\ rides[reqs[p].ride.id] = reqs[p].ride

\* C23: every stored ride keeps its id, creatorId and totalSeats in every
\* step, whatever UpdateRide patches, bookings and cancellations are applied.
C23_ImmutableRideFields ==
  [][\A k \in DOMAIN rides \cap DOMAIN rides' :
       /\ rides'[k].id = rides[k].id
       /\ rides'[k].creatorId = rides[k].creatorId
       /\ rides'[k].totalSeats = rides[k].totalSeats]_vars

\* C24: a CancelBooking by the owner of a BOOKED booking whose ride is not
\* stored any more cancels the booking, is answered 200, and leaves the rides
\* as they are: no seats are restored and no ride is inserted.
C24_CancelAfterDelete ==
  [][\A p \in Slots :
       LET r == reqs[p]
           n == reqs'[p]
       IN (/\ r.op = "CancelBooking" /\ n # r
           /\ r.booking # Undefined
           /\ r.booking.rideId \notin DOMAIN rides)
          => /\ rides' = rides
             /\ (/\ r.pc = "check"
                 /\ r.booking.userId = r.userId
                 /\ r.booking.status = "BOOKED")
                => /\ n.pc = "getRide"
                   /\ bookings'[r.body.id].status = "CANCELLED"
             /\ r.pc = "getRide" => n.ride = Undefined
             /\ r.pc = "updateRide"
                => /\ n.res = Ok(200)
                   /\ bookings'[r.body.id].status = "CANCELLED"]_vars

\* a cancellation that found no ride was answered 200
C24_Witness ==
  \E p \in Slots :
    /\ OwnerCancelCall(p)
    /\ reqs[p].res = Ok(200)
    /\ reqs[p].ride = Undefined
    /\ reqs[p].booking.rideId \notin DOMAIN rides
    /\ bookings[reqs[p].body.id].status = "CANCELLED"

\* the fields of a booking that cancelBooking may write
CancelWrites == {"status", "cancelledAt"}

\* C25: no step changes the id, rideId, userId, seatsBooked or bookedAt of a
\* stored booking; the step of a CancelBooking that calls cancelBooking
\* changes at most status and cancelledAt of the booking it targets and
\* leaves every other booking as it was.
C25_ImmutableBookingFields ==
  [][/\ \A b \in DOMAIN bookings :
          /\ b \in DOMAIN bookings'
          /\ bookings'[b].id = bookings[b].id
          /\ bookings'[b].rideId = bookings[b].rideId
          /\ bookings'[b].userId = bookings[b].userId
          /\ bookings'[b].seatsBooked = bookings[b].seatsBooked
          /\ bookings'[b].bookedAt = bookings[b].bookedAt
     /\ \A p \in Slots :
          (reqs[p].op = "CancelBooking" /\ reqs'[p] # reqs[p])
          => \A b \in DOMAIN bookings :
               /\ b # reqs[p].body.id => bookings'[b] = bookings[b]
               /\ \A f \in DOMAIN bookings[b] \ CancelWrites :
                    bookings'[b][f] = bookings[b][f]]_vars

\* a user cancelled one of two bookings on a ride and the other is BOOKED
C25_Witness ==
  \E a, b \in DOMAIN bookings :
    /\ a # b
    /\ bookings[a].userId = bookings[b].userId
    /\ bookings[a].rideId = bookings[b].rideId
    /\ bookings[a].status = "CANCELLED" /\ "cancelledAt" \in DOMAIN bookings[a]
    /\ bookings[b].status = "BOOKED" /\ "cancelledAt" \notin DOMAIN bookings[b]

\* the bookings ever inserted for a ride: its successful CreateBooking calls
InsertedOn(id) == {b \in DOMAIN bookings : bookings[b].rideId = id}

\* the bookings of a ride that a successful CancelBooking cancelled
CancelledOn(id) ==
  {b \in DOMAIN bookings : bookings[b].rideId = id /\ bookings[b].status = "CANCELLED"}

\* C26: once every CreateBooking and CancelBooking call on a ride has
\* returned (each cancellation aimed at its own BOOKED booking, no creator
\* edits), availableSeats is the initial seat count minus the seats of the
\* successful bookings plus the seats of the successful cancellations.
C26_LinearizableSeats ==
  NoneInFlight =>
    \A id \in DOMAIN rides :
      rides[id].availableSeats =
        rides[id].totalSeats - SumSeats(InsertedOn(id)) + SumSeats(CancelledOn(id))

\* C27: at the step where a CreateBooking writes its seat decrement, the ride
\* as stored at that moment is OPEN and has at least seatsBooked seats.
C27_RevalidatedAtCommit ==
  [][\A p \in Slots :
       LET r == reqs[p] IN
       (/\ r.op = "CreateBooking" /\ r.pc = "updateRide" /\ reqs'[p] # r
        /\ r.body.rideId \in DOMAIN rides)
       => /\ rides[r.body.rideId].status = "OPEN"
          /\ rides[r.body.rideId].availableSeats >= r.body.seatsBooked]_vars

\* C28: in every state, the states between the store calls of a handler
\* included, the seats of the BOOKED bookings of a stored ride have been
\* deducted from its availableSeats.
C28_DeductedBeforeInserted ==
  \A id \in DOMAIN rides :
    SumSeats(BookedOn(id)) <= rides[id].totalSeats - rides[id].availableSeats

\* C29: at the seat write of a CreateBooking, either the ride is stored and
\* receives the deduction, or the booking the call inserted does not stay
\* BOOKED.
C29_AllOrNothing ==
  [][\A p \in Slots :
       LET r == reqs[p] IN
       (r.op = "CreateBooking" /\ r.pc = "updateRide" /\ reqs'[p] # r)
       => \/ /\ r.body.rideId \in DOMAIN rides'
             /\ rides'[r.body.rideId].availableSeats
                  = r.ride.availableSeats - r.body.seatsBooked
          \/ r.booking.id \notin DOMAIN bookings'
          \/ bookings'[r.booking.id].status # "BOOKED"]_vars

\* C30: a cancellation that restores seats to a ride whose creator's last
\* edit set the status FULL, and that has seats left, keeps the status FULL.
C30_ManualFullStays ==
  [][\A p \in Slots, id \in 1..MaxRides :
       (/\ RestoresTo(p, id)
        /\ manualStatus[id] = "FULL"
        /\ rides[id].status = "FULL"
        /\ rides[id].availableSeats > 0)
       => /\ rides'[id].availableSeats
               = rides[id].availableSeats + reqs[p].booking.seatsBooked
          /\ rides'[id].status = "FULL"]_vars

\* a filter is supplied: the query string has the key with a value
Supplied(filters, k, empty) == k \in DOMAIN filters /\ filters[k] # empty

\* the same letter, whatever the case
SameLetter(c, d) == c = d \/ {c, d} = {"a", "A"} \/ {c, d} = {"b", "B"}

\* text t occurs in text s, the case of the letters ignored
OccursIn(t, s) ==
  \E i \in 1..Len(s) :
    \A j \in 1..Len(t) : i + j - 1 <= Len(s) /\ SameLetter(s[i + j - 1], t[j])

\* ride r satisfies every supplied filter
Satisfies(r, filters) ==
  /\ Supplied(filters, "from", <<>>) => OccursIn(filters.from, r.from)
  /\ Supplied(filters, "to", <<>>) => OccursIn(filters.to, r.to)
  /\ Supplied(filters, "date", "") => r.date = filters.date
  /\ (Supplied(filters, "vehicleType", "") /\ filters.vehicleType # "all")
     => r.vehicleType = filters.vehicleType

\* C22: the list a ListRides call answers holds exactly the stored rides that
\* satisfy every supplied filter, each once, newest createdAt first, and the
\* call leaves the store as it was.
C22_RideListing ==
  [][\A p \in Slots :
       LET n == reqs'[p] IN
       (reqs[p].pc = "idle" /\ n.op = "ListRides")
       => LET out == n.res.rides IN
          /\ {out[i] : i \in 1..Len(out)}
               = {rides[k] : k \in {x \in DOMAIN rides : Satisfies(rides[x], n.body)}}
          /\ \A i, j \in 1..Len(out) :
               i < j => out[i].createdAt >= out[j].createdAt /\ out[i].id # out[j].id
          /\ rides' = rides /\ bookings' = bookings]_vars

\* a list was answered that leaves out one of two rides for its from filter,
\* matched across the case of the letters
C22_Witness ==
  \E p \in Slots :
    /\ reqs[p].op = "ListRides" /\ reqs[p].pc = "done"
    /\ Supplied(reqs[p].body, "from", <<>>)
    /\ reqs[p].body.from = <<"a", "B">>
    /\ Len(reqs[p].res.rides) = 1
    /\ Cardinality(DOMAIN rides) = 2

\* C31: a CreateBooking that loaded a ride whose creator's last edit set the
\* status FULL, with seats left, is answered 400 and writes neither a booking
\* nor the ride.
C31_ManualFullBlocks ==
  [][\A p \in Slots :
       LET r == reqs[p]
           n == reqs'[p]
       IN (/\ r.op = "CreateBooking" /\ r.pc = "check" /\ n # r
           /\ r.ride # Undefined
           /\ manualStatus[r.body.rideId] = "FULL"
           /\ r.ride.status = "FULL"
           /\ r.ride.availableSeats > 0)
          => /\ n.pc = "done" /\ n.res.status = 400
             /\ bookings' = bookings /\ rides' = rides]_vars

\* a booking that fits the seats left was refused on a ride set FULL by hand
C31_Witness ==
  \E p \in Slots :
    /\ reqs[p].op = "CreateBooking" /\ reqs[p].pc = "done"
    /\ reqs[p].res = Err(400, "This ride is fully booked")
    /\ reqs[p].ride.availableSeats >= reqs[p].body.seatsBooked
    /\ manualStatus[reqs[p].body.rideId] = "FULL"

\* C33 as claimed: the checks of CreateBooking are made in the order ride
\* exists, caller is not the creator, status is OPEN, seats suffice, and the
\* first one that fails gives the answer.
C33_ErrorPrecedence ==
  [][\A p \in Slots :
       LET r == reqs[p]
           n == reqs'[p]
       IN (r.op = "CreateBooking" /\ r.pc = "check" /\ n # r)
          => IF r.ride = Undefined THEN n.res = Err(404, "Ride not found")
             ELSE IF r.ride.creatorId = r.userId
             THEN n.res = Err(400, "Cannot book your own ride")
             ELSE IF r.ride.status # "OPEN"
             THEN n.res = Err(400, "This ride is fully booked")
             ELSE IF r.body.seatsBooked > r.ride.availableSeats
             THEN n.res = InsufficientCapacity
             ELSE n.pc = "updateRide"]_vars

\* C33 as amended: the order is ride exists, caller is not the creator, seats
\* suffice, status; a ride that is FULL and has too few seats is answered
\* "Not enough seats available", a FULL ride with enough seats "This ride is
\* fully booked".
C33_SeatsBeforeStatus ==
  [][\A p \in Slots :
       LET r == reqs[p]
           n == reqs'[p]
       IN (r.op = "CreateBooking" /\ r.pc = "check" /\ n # r)
          => IF r.ride = Undefined THEN n.res = Err(404, "Ride not found")
             ELSE IF r.ride.creatorId = r.userId
             THEN n.res = Err(400, "Cannot book your own ride")
             ELSE IF r.body.seatsBooked > r.ride.availableSeats
             THEN n.res = InsufficientCapacity
             ELSE r.ride.status = "FULL" => n.res = Err(400, "This ride is fully booked")]_vars

\* a booking for too many seats on a ride that is not OPEN was answered for
\* the seats
C33_Witness ==
  \E p \in Slots :
    /\ reqs[p].op = "CreateBooking" /\ reqs[p].pc = "done"
    /\ reqs[p].ride # Undefined
    /\ reqs[p].ride.creatorId # reqs[p].userId
    /\ reqs[p].ride.status = "FULL"
    /\ reqs[p].ride.availableSeats > 0
    /\ reqs[p].body.seatsBooked > reqs[p].ride.availableSeats
    /\ reqs[p].res = InsufficientCapacity

\* C34: the edit of a ride by its creator stores the status of the patch if
\* the patch has one and the status before the call otherwise, whatever the
\* seat counts before and after.
C34_EditKeepsStatus ==
  [][\A p \in Slots :
       LET r == reqs[p]
           id == r.body.id
       IN (/\ r.op = "UpdateRide" /\ r.pc = "check" /\ reqs'[p] # r
           /\ r.ride # Undefined
           /\ r.ride.creatorId = r.userId
           /\ id \in DOMAIN rides)
          => /\ id \in DOMAIN rides'
             /\ rides'[id].status =
                  IF "status" \in DOMAIN r.body.patch THEN r.body.patch.status
                  ELSE rides[id].status]_vars

\* an edit set the seats to zero and the ride is still OPEN
C34_Witness ==
  \E p \in Slots :
    /\ reqs[p].op = "UpdateRide" /\ reqs[p].pc = "done"
    /\ reqs[p].res.status = 200
    /\ DOMAIN reqs[p].body.patch = {"availableSeats"}
    /\ reqs[p].body.patch.availableSeats = 0
    /\ reqs[p].body.id \in DOMAIN rides
    /\ rides[reqs[p].body.id].availableSeats = 0
    /\ rides[reqs[p].body.id].status = "OPEN"

\* C35: a BOOKED booking has no cancelledAt, a CANCELLED one has, and no step
\* changes a cancelledAt that is set.
C35_CancelledAtOnce ==
  [][\A b \in DOMAIN bookings' :
       /\ bookings'[b].status = "BOOKED" => "cancelledAt" \notin DOMAIN bookings'[b]
       /\ bookings'[b].status = "CANCELLED" => "cancelledAt" \in DOMAIN bookings'[b]
       /\ (b \in DOMAIN bookings /\ "cancelledAt" \in DOMAIN bookings[b])
          => bookings'[b].cancelledAt = bookings[b].cancelledAt]_vars

\* C32: every booking is inserted with totalPrice = seatsBooked times the
\* pricePerHead its ride has in the store when the record is inserted, also
\* when the creator's price edit runs between the stretches of CreateBooking.
C32_PriceAtBookingTime ==
  [][\A b \in DOMAIN bookings' \ DOMAIN bookings :
       bookings'[b].rideId \in DOMAIN rides =>
         bookings'[b].totalPrice =
           bookings'[b].seatsBooked * rides[bookings'[b].rideId].pricePerHead]_vars

\* the answers of the ride and booking handlers: a result or a taxonomy error
Outcomes ==
  {Ok(200), Ok(201),
   Err(404, "Ride not found"), Err(404, "Booking not found"),
   Err(403, "Not authorized to update this ride"),
   Err(403, "Not authorized to delete this ride"),
   Err(403, "Not authorized to cancel this booking"),
   Err(400, "Cannot book your own ride"), Err(400, "Not enough seats available"),
   Err(400, "This ride is fully booked"), Err(400, "Booking already cancelled"),
   Err(400, "ZodError")}

\* C36: every CreateBooking, CancelBooking, UpdateRide and DeleteRide call that
\* has started ends, under any interleaving, with one answer out of Outcomes,
\* and an answered call keeps its answer.
C36_EveryCallReturns ==
  /\ \A p \in Slots :
       (reqs[p].pc \notin {"idle", "done"})
         ~> (reqs[p].pc = "done" /\ reqs[p].res \in Outcomes)
  /\ [][\A p \in Slots : reqs[p].pc = "done" => reqs'[p] = reqs[p]]_vars

\* a cancellation has ended although the ride of its booking was deleted under
\* it, and the deletion has ended too
C36_Witness ==
  \E p, q \in Slots :
    /\ reqs[p].op = "CancelBooking" /\ reqs[p].pc = "done"
    /\ reqs[p].res = Ok(200) /\ reqs[p].ride = Undefined
    /\ reqs[q].op = "DeleteRide" /\ reqs[q].pc = "done" /\ reqs[q].res = Ok(200)

\* C39: an id that was given to a ride and is no longer in the store is not in
\* the store after any step.
C39_DeletedStaysDeleted ==
  [][\A id \in 1..(nextRideId - 1) :
       id \notin DOMAIN rides => id \notin DOMAIN rides']_vars

\* the ride was deleted under a CreateBooking that had loaded it and inserted
\* its booking, and whose updateRide call for the deleted id comes next
C39_Witness ==
  \E p, q \in Slots :
    /\ reqs[q].op = "DeleteRide" /\ reqs[q].res = Ok(200)
    /\ reqs[p].op = "CreateBooking" /\ reqs[p].pc = "updateRide"
    /\ reqs[p].ride # Undefined
    /\ reqs[p].ride.id \notin DOMAIN rides

\* C40: updateRide merges the patch onto the stored ride: a creator's edit
\* stores every field of its patch and leaves every other field as the store
\* holds it, whatever the handler loaded, and writes nothing for an unknown id;
\* with autoUpdateStatus = true a patch without availableSeats gives the same.
C40_UpdateRideMerges ==
  [][/\ \A p \in Slots :
          (reqs[p].op = "UpdateRide" /\ reqs[p].pc = "check" /\ reqs'[p].pc = "respond") =>
            LET id == reqs[p].body.id
                patch == reqs[p].body.patch IN
            IF id \in DOMAIN rides
            THEN /\ id \in DOMAIN rides'
                 /\ DOMAIN rides'[id] = DOMAIN rides[id] \cup DOMAIN patch
                 /\ \A f \in DOMAIN rides'[id] :
                      rides'[id][f] = IF f \in DOMAIN patch THEN patch[f] ELSE rides[id][f]
                 /\ "availableSeats" \notin DOMAIN patch =>
                      /\ rides'[id].availableSeats = rides[id].availableSeats
                      /\ rides'[id].status = rides[id].status
            ELSE rides' = rides
     /\ \A id \in 1..MaxRides, patch \in PricePatches :
          LET after == updateRide(id, patch, TRUE) IN
          IF id \in DOMAIN rides
          THEN /\ after[id].availableSeats = rides[id].availableSeats
               /\ after[id].status = rides[id].status
               /\ after[id].pricePerHead = patch.pricePerHead
          ELSE after = rides]_vars

\* a price edit was stored after a booking had changed the seat count the
\* edit's handler loaded
C40_Witness ==
  \E p \in Slots :
    /\ reqs[p].op = "UpdateRide" /\ reqs[p].pc = "respond" /\ reqs[p].res = Ok(200)
    /\ reqs[p].body.id \in DOMAIN rides
    /\ rides[reqs[p].body.id].pricePerHead = reqs[p].body.patch.pricePerHead
    /\ rides[reqs[p].body.id].pricePerHead # reqs[p].ride.pricePerHead
    /\ rides[reqs[p].body.id].availableSeats # reqs[p].ride.availableSeats

\* C37: no two stored users have the same email, also when logins overlap,
\* and a login that found its email in the store creates no user.
C37_UniqueEmail ==
  [][/\ \A a, b \in DOMAIN users' : users'[a].email = users'[b].email => a = b
     /\ \A p \in Slots :
          (reqs[p].op = "Login" /\ reqs[p].user # Undefined /\ reqs'[p] # reqs[p])
            => users' = users]_vars

\* C38: a request to a gated endpoint whose session id is missing, unknown or
\* logged out is answered 401 Unauthorized and changes no user, ride or
\* booking, and any other gated request runs as the user of its session; every
\* session refers to a stored user; a session id that is not in the session map
\* is not in it after any step.
C38_SessionGating ==
  [][/\ \A p \in Slots :
          (reqs[p].pc = "idle" /\ reqs'[p].op \in GatedOps) =>
            LET sid == reqs'[p].sessionId IN
            IF sid \in DOMAIN sessions
            THEN /\ reqs'[p].userId = sessions[sid]
                 /\ reqs'[p].res # Err(401, "Unauthorized")
            ELSE /\ reqs'[p].pc = "done"
                 /\ reqs'[p].res = Err(401, "Unauthorized")
                 /\ users' = users /\ rides' = rides /\ bookings' = bookings
     /\ \A sid \in DOMAIN sessions' : sessions'[sid] \in DOMAIN users'
     /\ \A sid \in Presented : sid \notin DOMAIN sessions => sid \notin DOMAIN sessions']_vars

\* a request that presented a logged-out session id was turned away while a
\* ride is stored and another session is live
C38_Witness ==
  \E p \in Slots :
    /\ reqs[p].op \in GatedOps
    /\ reqs[p].res = Err(401, "Unauthorized")
    /\ reqs[p].sessionId \in 1..(nextSessionId - 1)
    /\ rides # EmptyMap
    /\ sessions # EmptyMap
====
